---- MODULE Spec2Model ----
(***************************************************************************)
(* x2wechat.py: poll Nitter RSS mirrors for tracked users, push every new  *)
(* tweet to a WeChat channel, keep a per-user "last_id" in state.json.      *)
(*                                                                         *)
(* One process at a time.  pc is the position of the process in main();    *)
(* fs is the file system (the checkpoint and its ".tmp" sibling), which    *)
(* survives the process.  A stopped process may be started again.          *)
(***************************************************************************)
EXTENDS Integers, Sequences, FiniteSets, TLC

\* ------------------------------------------------------------------ bounds
MaxId == 3        \* tweet ids are 1..MaxId
MaxFeed == 2      \* items in one RSS document
MaxPasses == 2    \* calls of run_once over all processes of a behaviour

\* ------------------------------------------------------------ configuration
Accounts == {"a", "b", "z"}    \* keys a checkpoint may hold ("z" is never tracked)

\* ---------------------------------------------------------------- strings
\* A pubDate is the text of <pubDate>, kept as its character codes.  RSS
\* dates are RFC 822 ("Fri, 05 Jan ..."); the two below are "F05" and "M01":
\* a Friday the 5th and a Monday the 1st of the same month.
PubDates == { <<70, 48, 53>>, <<77, 48, 49>> }

\* Python's str "<": lexicographic on the character codes.
RECURSIVE StrLess(_, _)
StrLess(s, t) ==
  IF t = <<>> THEN FALSE
  ELSE IF s = <<>> THEN TRUE
  ELSE IF Head(s) < Head(t) THEN TRUE
  ELSE IF Head(s) > Head(t) THEN FALSE
  ELSE StrLess(Tail(s), Tail(t))

\* The day the pubDate text denotes (its two digits).
PubTime(pd) == (pd[2] - 48) * 10 + (pd[3] - 48)

\* ------------------------------------------------------------------ links
\* A link is ".../status/<digits>#m", or ".../status/1x" (a word character
\* right after the digits, so that \b does not match).
Links ==
  { [digits |-> n, tail |-> "#m"] : n \in 1..MaxId }
    \cup { [digits |-> 1, tail |-> "x"] }

\* TWEET_ID_RE = /status/(\d+)\b ; 0 stands for None.
extract_tweet_id(link) ==
  IF link.digits > 0 /\ link.tail # "x" THEN link.digits ELSE 0

\* ------------------------------------------------------------- documents
Items == [link : Links, pubDate : PubDates]

RECURSIVE SeqsUpTo(_, _)
SeqsUpTo(S, n) ==
  IF n = 0 THEN { <<>> }
  ELSE LET shorter == SeqsUpTo(S, n - 1)
       IN  shorter \cup { Append(s, e) : s \in { t \in shorter : Len(t) = n - 1 }, e \in S }

\* A feed lists a status once: no two of its items carry the same id.
Feeds ==
  { f \in SeqsUpTo(Items, MaxFeed) :
      \A i, j \in 1..Len(f) :
        (i # j /\ extract_tweet_id(f[i].link) # 0) =>
          extract_tweet_id(f[i].link) # extract_tweet_id(f[j].link) }

\* A non-empty response body: well-formed RSS with its items, or anything else.
Docs == { [xml |-> "rss", items |-> f] : f \in Feeds }
          \cup { [xml |-> "malformed", items |-> <<>>] }

NoBody == [xml |-> "", items |-> <<>>]

parse_rss_items(body) == IF body.xml = "rss" THEN body.items ELSE <<>>

\* list.sort(key=pubDate): stable, ascending in the pubDate text.
RECURSIVE InsertByPubDate(_, _)
InsertByPubDate(sorted, e) ==
  IF sorted = <<>> THEN <<e>>
  ELSE IF StrLess(e.pubDate, Head(sorted).pubDate) THEN <<e>> \o sorted
  ELSE <<Head(sorted)>> \o InsertByPubDate(Tail(sorted), e)

RECURSIVE SortByPubDate(_)
SortByPubDate(s) ==
  IF s = <<>> THEN <<>>
  ELSE InsertByPubDate(SortByPubDate(SubSeq(s, 1, Len(s) - 1)), s[Len(s)])

\* --------------------------------------------------------------- transport
\* What http_get returns: (0, b"") on URLError, (e.code, e.read()) on
\* HTTPError, (200, body) otherwise.
Responses ==
  { [code |-> 0, body |-> NoBody],
    [code |-> 404, body |-> [xml |-> "malformed", items |-> <<>>]],
    [code |-> 200, body |-> NoBody] }
    \cup { [code |-> 200, body |-> d] : d \in Docs }

\* Faulty variant of ProbeOk: the body is not looked at.
ProbeOkAnyBody(resp) == resp.code = 200

\* if code == 200 and body
ProbeOk(resp) == resp.code = 200 /\ resp.body # NoBody

\* ------------------------------------------------------------- checkpoint
\* One user's record in state["users"]: no key, {}, a record without
\* "last_id", a record whose last_id is not a number, or a numeric last_id.
Rec(tag, id) == [tag |-> tag, id |-> id]
Absent == Rec("absent", 0)
NumRec(n) == Rec("id", n)

NoUsers == [a \in Accounts |-> Absent]

\* A file: missing, text that is not JSON ("garbage"), bytes that are not
\* UTF-8 ("binary"), a cut-off write ("partial"), or JSON.
File(kind, users) == [kind |-> kind, users |-> users]
Missing == File("missing", NoUsers)

Path == "state.json"
\* Faulty variant of TmpPath: the checkpoint is written in place.
TmpPathInPlace == "state.json"

\* tmp = f"{path}.tmp"
TmpPath == "state.json.tmp"

\* load_json(path, {}): FileNotFoundError and JSONDecodeError give the default.
load_json(f) == IF f.kind = "json" THEN f.users ELSE NoUsers

\* open(path, "r", encoding="utf-8") and json.load(f): f.read() raises
\* UnicodeDecodeError on bytes that are not UTF-8, which load_json does not catch.
LoadRaises(f) == f.kind = "binary"

\* The checkpoints a first process may find.
InitFiles ==
  { Missing,
    File("garbage", NoUsers),
    File("binary", NoUsers),
    File("json", [NoUsers EXCEPT !["a"] = Rec("empty", 0), !["z"] = NumRec(1)]),
    File("json", [NoUsers EXCEPT !["b"] = Rec("nolastid", 0)]),
    File("json", [NoUsers EXCEPT !["b"] = Rec("bad", 0), !["z"] = NumRec(2)]) }

\* ------------------------------------------------------------------- state
VARIABLES
  fs,             \* the files: Path and TmpPath
  cfg,            \* the configuration: users, nitter_instances, the push
                  \* credentials, and the mode (--once / --daemon)
  pc,             \* where the process is in main() / run_once()
  halt,           \* how and where the last process stopped
  state,          \* state["users"] of the running process
  passes,         \* calls of run_once so far
  ui,             \* index of username in Users
  mi,             \* index of base in Instances
  items,          \* fetch_latest_from_nitter's result
  last_id,        \* run_once's last_id for username
  new_items,      \* run_once's new_items
  k,              \* index of it in new_items
  latest_seen_id, \* run_once's latest_seen_id
  probes,         \* log: the http_get calls of the fetch under way
  attempts,       \* log: the pushes made for username in this pass
  hist            \* log over the passes (kept when hist.on)

vars == <<fs, cfg, pc, halt, state, passes, ui, mi, items, last_id, new_items, k,
          latest_seen_id, probes, attempts, hist>>

\* Python values of last_id / latest_seen_id: None, a str that int() rejects,
\* or a str of digits.
PyNone == [kind |-> "None", n |-> 0]
PyText == [kind |-> "text", n |-> 0]
PyNum(n) == [kind |-> "num", n |-> n]

FsPaths == {"state.json", "state.json.tmp"}

Running == {"start", "run", "probe", "filter", "push", "advance", "user_done",
            "save_open", "save_write", "save_replace", "sleep"}
Stopped == {"exited", "crashed", "interrupted", "aborted"}
NoHalt == [kind |-> "none", at |-> "none"]

\* What one earlier pass did for one user: the items it fetched, whether all
\* its pushes were accepted, the ids from its first refused push on, and the
\* record it left.
NoPrev == [ran |-> FALSE, items |-> <<>>, allOk |-> TRUE, pending |-> {}, end |-> Absent]

\* delivered: the (user, id) pushes accepted so far; again: those accepted a
\* second time; observed: the (user, id) seen in a fetched feed; lossy: a
\* process was stopped between a push and the save of its pass.
NoHist ==
  [on |-> FALSE, lossy |-> FALSE, delivered |-> {}, again |-> {}, observed |-> {},
   prev |-> [a \in Accounts |-> NoPrev]]

\* What a process starts with (and what a stopped one has lost).
Volatile ==
  /\ state = NoUsers
  /\ ui = 1
  /\ mi = 1
  /\ items = <<>>
  /\ last_id = PyNone
  /\ new_items = <<>>
  /\ k = 1
  /\ latest_seen_id = PyNone
  /\ probes = <<>>
  /\ attempts = <<>>

Init ==
  /\ fs \in { [p \in FsPaths |-> IF p = Path THEN f ELSE Missing] : f \in InitFiles }
  /\ cfg \in [users : { <<"a", "b">> }, instances : { <<"A", "B", "C">> },
              mode : {"once", "daemon"}, creds : BOOLEAN]
  /\ pc = "start"
  /\ halt = NoHalt
  /\ passes = 0
  /\ hist = NoHist
  /\ Volatile

\* ----------------------------------------------------------------- helpers
username == cfg.users[ui]

\* str(users_state.get(username, {}).get("last_id")) if users_state.get(username)
\* else None: {} is falsy; str(None) is the text "None".
LastIdOf(rec) ==
  IF rec.tag \in {"absent", "empty"} THEN PyNone
  ELSE IF rec.tag = "id" THEN PyNum(rec.id)
  ELSE PyText

\* Faulty variant of IsNew: every item with a tid counts as new.
IsNewAlways(tid, lid) == TRUE

\* last_id is None or int(tid) > int(last_id), for an item with a tid.
IsNew(tid, lid) == lid.kind = "None" \/ tid > lid.n

\* int(last_id) raises ValueError: reached at the first item that has a tid.
FilterRaises(its, lid) ==
  /\ lid.kind = "text"
  /\ \E i \in 1..Len(its) : extract_tweet_id(its[i].link) # 0

\* Faulty variant of NewItems: an item without a tid is kept.
NewItemsKeepAll(its, lid) ==
  LET keep(it) == \/ extract_tweet_id(it.link) = 0
                  \/ IsNew(extract_tweet_id(it.link), lid)
  IN  SelectSeq(its, keep)

\* The loop of run_once that builds new_items.
NewItems(its, lid) ==
  LET keep(it) == /\ extract_tweet_id(it.link) # 0
                  /\ IsNew(extract_tweet_id(it.link), lid)
  IN  SelectSeq(its, keep)

\* Faulty variant of SeenAfter: the id is taken whatever ok was.
SeenAfterAnyOutcome(seen, ok, tid) == IF tid # 0 THEN PyNum(tid) ELSE seen

\* ok and tid: the id that replaces latest_seen_id.
SeenAfter(seen, ok, tid) == IF ok /\ tid # 0 THEN PyNum(tid) ELSE seen

\* Faulty variant of PushOutcomes: a push is made without credentials.
PushOutcomesAny(creds) == BOOLEAN

\* ok after one turn of the push loop: what push_wecom / push_serverchan
\* returned, or False ("No push method configured") without credentials.
PushOutcomes(creds) == IF creds THEN BOOLEAN ELSE {FALSE}

\* Faulty variant of Advanced: users_state is rebuilt with username alone.
AdvancedAlone(users, u, seen) ==
  IF seen.kind = "num"
  THEN [a \in Accounts |-> IF a = u THEN NumRec(seen.n) ELSE Absent]
  ELSE users

\* if latest_seen_id: users_state[username] = {"last_id": latest_seen_id}
Advanced(users, u, seen) ==
  IF seen.kind = "num" THEN [users EXCEPT ![u] = NumRec(seen.n)] ELSE users

\* The for loop over new_items goes on to the next item whatever ok was.
MoreToPush(ok) == k < Len(new_items)

Tids(its) == { extract_tweet_id(its[i].link) : i \in 1..Len(its) } \ {0}

\* The ids pushed from the first refused push on.
PendingOf(att) ==
  { att[j].tid : j \in { j \in 1..Len(att) : \E i \in 1..j : ~att[i].ok } }

HistFetched(h, u, its) ==
  IF h.on THEN [h EXCEPT !.observed = @ \cup { <<u, t>> : t \in Tids(its) }] ELSE h

HistPushed(h, u, tid, ok) ==
  IF h.on /\ ok
  THEN [h EXCEPT !.delivered = @ \cup { <<u, tid>> },
                 !.again = @ \cup (IF <<u, tid>> \in h.delivered THEN { <<u, tid>> } ELSE {})]
  ELSE h

HistUserDone(h, u) ==
  IF h.on /\ items # <<>>
  THEN [h EXCEPT !.prev[u] =
          [ran |-> TRUE, items |-> items,
           allOk |-> \A i \in 1..Len(attempts) : attempts[i].ok,
           pending |-> PendingOf(attempts), end |-> state[u]]]
  ELSE h

HistStopped(h, kind, at) ==
  IF h.on /\ kind # "exited" /\ at \in {"push", "advance", "user_done", "probe", "filter",
                                        "save_open", "save_write", "save_replace"}
  THEN [h EXCEPT !.lossy = TRUE]
  ELSE h

ClearUser ==
  /\ mi' = 1
  /\ items' = <<>>
  /\ last_id' = PyNone
  /\ new_items' = <<>>
  /\ k' = 1
  /\ latest_seen_id' = PyNone
  /\ probes' = <<>>
  /\ attempts' = <<>>

Stop(kind) ==
  /\ pc' = kind
  /\ halt' = [kind |-> kind, at |-> pc]
  /\ hist' = HistStopped(hist, kind, pc)
  /\ state' = NoUsers
  /\ ui' = 1
  /\ ClearUser

\* ----------------------------------------------------------------- actions
\* main: state = load_json(state_path, {}); run_once: state.setdefault("users", {})
Load ==
  /\ pc = "start"
  /\ IF LoadRaises(fs[Path])
     THEN Stop("aborted")
     ELSE /\ state' = load_json(fs[Path])
          /\ pc' = "run"
          /\ UNCHANGED <<halt, ui, mi, items, last_id, new_items, k,
                         latest_seen_id, probes, attempts, hist>>
  /\ UNCHANGED <<fs, cfg, passes>>

\* run_once is entered: the loop over users starts with the first one.
RunOnce ==
  /\ pc = "run"
  /\ passes < MaxPasses
  /\ passes' = passes + 1
  /\ ui' = 1
  /\ ClearUser
  /\ pc' = "probe"
  /\ UNCHANGED <<fs, cfg, halt, state, hist>>

\* fetch_latest_from_nitter, one turn of its loop: http_get(base/username/rss).
\* The first 200 with a body is parsed, sorted and returned; after the last
\* instance the result is [].
Probe ==
  /\ pc = "probe"
  /\ \E resp \in Responses :
       /\ probes' = Append(probes, [base |-> cfg.instances[mi], resp |-> resp])
       /\ IF ProbeOk(resp)
          THEN /\ items' = SortByPubDate(parse_rss_items(resp.body))
               /\ pc' = "filter"
               /\ mi' = mi
          ELSE IF mi < Len(cfg.instances)
          THEN /\ mi' = mi + 1
               /\ UNCHANGED <<items, pc>>
          ELSE /\ items' = <<>>
               /\ pc' = "filter"
               /\ mi' = mi
  /\ hist' = HistFetched(hist, username, items')
  /\ UNCHANGED <<fs, cfg, halt, state, passes, ui, last_id, new_items, k,
                 latest_seen_id, attempts>>

\* http_get catches HTTPError and URLError only: a timeout while the response
\* is read, or a dropped connection, leaves run_once as an exception.
ProbeRaises ==
  /\ pc = "probe"
  /\ Stop("aborted")
  /\ UNCHANGED <<fs, cfg, passes>>

\* run_once from "if not items" to the sort of new_items.
Filter ==
  /\ pc = "filter"
  /\ LET lid == LastIdOf(state[username])
         new == NewItems(items, lid)
     IN  IF items = <<>>
         THEN /\ pc' = "user_done"
              /\ probes' = <<>>
              /\ UNCHANGED <<last_id, new_items, latest_seen_id, halt, state, ui, mi,
                             items, k, attempts, hist>>
         ELSE IF FilterRaises(items, lid)
         THEN Stop("aborted")
         ELSE /\ last_id' = lid
              /\ new_items' = SortByPubDate(new)
              /\ latest_seen_id' = lid
              /\ pc' = IF new = <<>> THEN "user_done" ELSE "push"
              /\ probes' = <<>>
              /\ UNCHANGED <<halt, state, ui, mi, items, k, attempts, hist>>
  /\ UNCHANGED <<fs, cfg, passes>>

\* One turn of the push loop: format_message, push_wecom / push_serverchan
\* when the method has its credentials, else ok = False without a request.
Push ==
  /\ pc = "push"
  /\ \E ok \in PushOutcomes(cfg.creds) :
       LET tid == extract_tweet_id(new_items[k].link)
       IN  /\ latest_seen_id' = SeenAfter(latest_seen_id, ok, tid)
           /\ attempts' = Append(attempts, [tid |-> tid, ok |-> ok, sent |-> cfg.creds])
           /\ hist' = HistPushed(hist, username, tid, ok)
           /\ IF MoreToPush(ok)
              THEN k' = k + 1 /\ pc' = pc
              ELSE k' = k /\ pc' = "advance"
  /\ UNCHANGED <<fs, cfg, halt, state, passes, ui, mi, items, last_id, new_items, probes>>

\* http_post_json / http_post_form catch HTTPError and URLError only.
PushRaises ==
  /\ pc = "push"
  /\ cfg.creds
  /\ Stop("aborted")
  /\ UNCHANGED <<fs, cfg, passes>>

\* The end of the turn for username: users_state is updated.
Advance ==
  /\ pc = "advance"
  /\ state' = Advanced(state, username, latest_seen_id)
  /\ pc' = "user_done"
  /\ UNCHANGED <<fs, cfg, halt, passes, ui, mi, items, last_id, new_items, k,
                 latest_seen_id, probes, attempts, hist>>

\* The loop over users goes to the next username, or run_once returns state.
NextUser ==
  /\ pc = "user_done"
  /\ IF ui < Len(cfg.users)
     THEN ui' = ui + 1 /\ pc' = "probe"
     ELSE ui' = 1 /\ pc' = "save_open"
  /\ hist' = HistUserDone(hist, username)
  /\ ClearUser
  /\ UNCHANGED <<fs, cfg, halt, state, passes>>

\* save_json_atomic: open(tmp, "w") truncates tmp.
SaveOpen ==
  /\ pc = "save_open"
  /\ fs' = [fs EXCEPT ![TmpPath] = File("partial", NoUsers)]
  /\ pc' = "save_write"
  /\ UNCHANGED <<cfg, halt, state, passes, ui, mi, items, last_id, new_items, k,
                 latest_seen_id, probes, attempts, hist>>

\* save_json_atomic: json.dump(data, f) and the close of f.
SaveWrite ==
  /\ pc = "save_write"
  /\ fs' = [fs EXCEPT ![TmpPath] = File("json", state)]
  /\ pc' = "save_replace"
  /\ UNCHANGED <<cfg, halt, state, passes, ui, mi, items, last_id, new_items, k,
                 latest_seen_id, probes, attempts, hist>>

\* save_json_atomic: os.replace(tmp, path); then main returns (--once) or
\* sleeps (--daemon).
SaveReplace ==
  /\ pc = "save_replace"
  /\ fs' = [p \in FsPaths |-> IF p = Path THEN fs[TmpPath]
                              ELSE IF p = TmpPath THEN Missing
                              ELSE fs[p]]
  /\ IF cfg.mode = "once"
     THEN Stop("exited")
     ELSE /\ pc' = "sleep"
          /\ UNCHANGED <<halt, state, ui, mi, items, last_id, new_items, k,
                         latest_seen_id, probes, attempts, hist>>
  /\ UNCHANGED <<cfg, passes>>

\* time.sleep(max(60, interval)) returns: the next turn of while True.
Sleep ==
  /\ pc = "sleep"
  /\ pc' = "run"
  /\ UNCHANGED <<fs, cfg, halt, state, passes, ui, mi, items, last_id, new_items, k,
                 latest_seen_id, probes, attempts, hist>>

\* KeyboardInterrupt: raised wherever the process is; in --daemon the except
\* clause around the loop prints "Exiting.", in --once it ends the process.
Interrupt ==
  /\ pc \in Running \ {"start"}
  /\ Stop("interrupted")
  /\ UNCHANGED <<fs, cfg, passes>>

\* The process is killed (or the machine stops) at any point.
Crash ==
  /\ pc \in Running
  /\ Stop("crashed")
  /\ UNCHANGED <<fs, cfg, passes>>

\* The program is started again (cron, a workflow run, by hand).
Restart ==
  /\ pc \in Stopped
  /\ pc' = "start"
  /\ halt' = NoHalt
  /\ UNCHANGED <<fs, cfg, state, passes, ui, mi, items, last_id, new_items, k,
                 latest_seen_id, probes, attempts, hist>>

Next ==
  \/ Load
  \/ RunOnce
  \/ Probe
  \/ ProbeRaises
  \/ Filter
  \/ Push
  \/ PushRaises
  \/ Advance
  \/ NextUser
  \/ SaveOpen
  \/ SaveWrite
  \/ SaveReplace
  \/ Sleep
  \/ Interrupt
  \/ Crash
  \/ Restart

\* Two tracked users, three mirrors.
Spec == Init /\ [][Next]_vars

\* One tracked user, one mirror, and the log over the passes.
InitHist ==
  /\ fs \in { [p \in FsPaths |-> IF p = Path THEN f ELSE Missing] :
                f \in { Missing,
                        File("json", [NoUsers EXCEPT !["a"] = Rec("empty", 0),
                                                     !["z"] = NumRec(1)]) } }
  /\ cfg \in [users : { <<"a">> }, instances : { <<"A">> },
              mode : {"once", "daemon"}, creds : {TRUE}]
  /\ pc = "start"
  /\ halt = NoHalt
  /\ passes = 0
  /\ hist = [NoHist EXCEPT !.on = TRUE]
  /\ Volatile

SpecHist == InitHist /\ [][Next]_vars

\* ------------------------------------------------------------------ claims
Watermark(users, a) == IF users[a].tag = "id" THEN users[a].id ELSE 0
Persisted(a) == Watermark(load_json(fs[Path]), a)

FirstRefused(att) ==
  IF \E i \in 1..Len(att) : ~att[i].ok
  THEN CHOOSE i \in 1..Len(att) : ~att[i].ok /\ \A j \in 1..(i - 1) : att[j].ok
  ELSE Len(att) + 1

\* C1 (partial delivery halt): in one pass for one user, once a push was
\* refused by the channel no later item of that user is pushed, and the record
\* written for the user holds the id of the last push accepted before the
\* refusal (the record is left as it was if the first push was refused).
C1_PartialDeliveryHalt ==
  /\ \A i, j \in 1..Len(attempts) :
       (i < j /\ attempts[i].sent /\ ~attempts[i].ok) => ~attempts[j].sent
  /\ (pc = "user_done" /\ cfg.creds /\ attempts # <<>>) =>
       LET f == FirstRefused(attempts)
       IN  IF f = 1 THEN LastIdOf(state[username]) = last_id
           ELSE state[username] = NumRec(attempts[f - 1].tid)

\* C2 (no-skip delivery): every (user, id) that was seen in a fetched feed and
\* is at or below the user's persisted last_id has had its push accepted.
C2_NoSkip ==
  \A p \in hist.observed : p[2] <= Persisted(p[1]) => p \in hist.delivered

\* C3 (retry after failure): a user's pass that fetched a feed has pushed every
\* id of that feed that the user's previous pass pushed at or after its first
\* refused push.
C3_RetryAfterFailure ==
  (pc = "user_done" /\ items # <<>>) =>
    \A t \in hist.prev[username].pending \cap Tids(items) :
      \E i \in 1..Len(attempts) : attempts[i].tid = t

\* C4 (monotonicity): a numeric last_id of a user, in the checkpoint file and
\* in the state of a running process, is never replaced by a smaller one or
\* by a record without one.
C4_Monotone ==
  [][\A a \in Accounts :
       /\ Persisted(a) <= Watermark(load_json(fs'[Path]), a)
       /\ pc' \in Running \ {"start"} => Watermark(state, a) <= Watermark(state', a)]_vars

C4_Witness ==
  /\ pc = "save_replace"
  /\ Persisted("a") > 0
  /\ fs[TmpPath].kind = "json"
  /\ Watermark(fs[TmpPath].users, "a") > Persisted("a")
  /\ Watermark(fs[TmpPath].users, "b") > 0

\* C5 (advance only to a confirmed id): when a step of a pass changes a user's
\* record, the user is the one being processed and the new record holds the id
\* of an item whose push the channel accepted in this pass; the checkpoint
\* file only ever changes to the state the pass returned.
C5_OnlyConfirmed ==
  [][/\ \A a \in Accounts :
          (pc \in {"probe", "filter", "push", "advance", "user_done"}
             /\ pc' \in Running /\ state'[a] # state[a]) =>
            /\ a = username
            /\ state'[a].tag = "id"
            /\ \E i \in 1..Len(attempts) :
                 attempts[i].ok /\ attempts[i].sent /\ attempts[i].tid = state'[a].id
     /\ fs'[Path] # fs[Path] => fs'[Path] = File("json", state)]_vars

C5_Witness ==
  /\ pc = "user_done"
  /\ last_id.kind = "num"
  /\ state[username] # NumRec(last_id.n)
  /\ \E i \in 1..Len(attempts) : ~attempts[i].ok

\* C6 (idempotent re-run): a user's pass that starts from the record the
\* previous pass left, fetches the same items, and follows a pass whose pushes
\* were all accepted, has no push accepted.
C6_IdempotentRerun ==
  (/\ pc = "user_done"
   /\ hist.prev[username].ran
   /\ hist.prev[username].allOk
   /\ hist.prev[username].items = items
   /\ LastIdOf(hist.prev[username].end) = last_id)
    => \A i \in 1..Len(attempts) : ~attempts[i].ok

\* C7 (exactly once): as long as no process was stopped between a push and the
\* save of its pass, no (user, id) has its push accepted twice; and a pass
\* pushes only ids above the last_id the user had when the pass began.
C7_ExactlyOnce ==
  /\ ~hist.lossy => hist.again = {}
  /\ \A i \in 1..Len(attempts) : last_id.kind = "num" => attempts[i].tid > last_id.n

MaxOf(S) == CHOOSE x \in S : \A y \in S : y <= x

\* C8 (first run delivers all): a user whose record is absent, or has no
\* last_id, gets every fetched item that has an id pushed, oldest first, and
\* when every push is accepted the record holds the largest of those ids.
C8_FirstRunDeliverAll ==
  /\ (pc = "filter" /\ state[username].tag \in {"empty", "nolastid"}) =>
       /\ ~FilterRaises(items, LastIdOf(state[username]))
       /\ NewItems(items, LastIdOf(state[username])) = NewItems(items, PyNone)
  /\ (pc = "user_done" /\ cfg.creds /\ last_id.kind = "None" /\ Tids(items) # {}) =>
       /\ { attempts[i].tid : i \in 1..Len(attempts) } = Tids(items)
       /\ \A i, j \in 1..Len(new_items) :
            i < j => PubTime(new_items[i].pubDate) <= PubTime(new_items[j].pubDate)
       /\ (\A i \in 1..Len(attempts) : attempts[i].ok) =>
            state[username] = NumRec(MaxOf(Tids(items)))

Answered(resp) == resp.code = 200 /\ resp.body # NoBody

\* C9 (failover order): the mirrors contacted in one fetch are the first ones
\* of the configured list, in that order and once each; every one but the
\* last gave no 200 with a body; the fetch ends at the first 200 with a body,
\* whose items (sorted) are the result, or with [] after the whole list.
C9_FailoverOrder ==
  /\ Len(probes) <= Len(cfg.instances)
  /\ \A i \in 1..Len(probes) : probes[i].base = cfg.instances[i]
  /\ \A i \in 1..(Len(probes) - 1) : ~Answered(probes[i].resp)
  /\ pc = "probe" =>
       /\ Len(probes) = mi - 1
       /\ \A i \in 1..Len(probes) : ~Answered(probes[i].resp)
  /\ pc = "filter" =>
       /\ probes # <<>>
       /\ IF Answered(probes[Len(probes)].resp)
          THEN items = SortByPubDate(parse_rss_items(probes[Len(probes)].resp.body))
          ELSE Len(probes) = Len(cfg.instances) /\ items = <<>>

C9_Witness ==
  /\ pc = "filter"
  /\ Len(cfg.instances) = 3
  /\ Len(probes) = 2
  /\ probes[1].resp.code = 0
  /\ Answered(probes[2].resp)
  /\ items # <<>>

\* C10 (atomic checkpoint): the file at Path is never a cut-off write; it
\* changes only in os.replace, to the whole state that was saved; and a user
\* that had a numeric last_id in it still has one afterwards.
C10_AtomicCheckpoint ==
  [][/\ fs'[Path].kind # "partial"
     /\ fs'[Path] # fs[Path] =>
          /\ pc = "save_replace"
          /\ fs'[Path] = File("json", state)
          /\ \A a \in Accounts : Persisted(a) > 0 => Watermark(fs'[Path].users, a) > 0]_vars

C10_Witness ==
  /\ pc = "crashed"
  /\ halt.at = "save_replace"
  /\ fs[TmpPath].kind = "json"
  /\ fs[Path].kind = "json"
  /\ Persisted("a") > 0
  /\ Watermark(fs[TmpPath].users, "a") > Persisted("a")

PerUser == {"probe", "filter", "push", "advance", "user_done"}
Tracked == { cfg.users[i] : i \in 1..Len(cfg.users) }

\* C11 (per-account persistence): while a later user of a pass is processed,
\* the checkpoint file holds, for every user the pass has finished, the record
\* the pass left for that user.
C11_PerAccountPersistence ==
  pc \in PerUser =>
    \A j \in 1..(ui - 1) : load_json(fs[Path])[cfg.users[j]] = state[cfg.users[j]]

\* C12 (transient source unavailability): a probe of a mirror never ends the
\* pass; a fetch that ends without a 200 with a body, or with a body that
\* has no items, yields no items; a user without items has no push made and
\* the record untouched, and the pass goes on to the next user or to the save.
C12_SourceUnavailable ==
  [][pc' \notin {"crashed", "interrupted"} =>
       /\ pc = "probe" =>
            /\ pc' \in {"probe", "filter"}
            /\ state' = state
            /\ (pc' = "filter" /\ (~Answered(probes'[Len(probes')].resp)
                                     \/ probes'[Len(probes')].resp.body.items = <<>>))
                 => items' = <<>>
       /\ (pc = "filter" /\ items = <<>>) =>
            pc' = "user_done" /\ state' = state /\ attempts' = <<>>
       /\ (pc = "user_done" /\ items = <<>>) =>
            /\ attempts = <<>>
            /\ state' = state
            /\ pc' = IF ui < Len(cfg.users) THEN "probe" ELSE "save_open"]_vars

\* The link has digits after /status/ that end at a word boundary.
HasStatusId(link) == link.tail = "#m"
WithIds(its) == SelectSeq(its, LAMBDA it : HasStatusId(it.link))

\* C13 (entries without an id): an item whose link has no status id is never
\* among the items pushed, no push is logged for it, and the items pushed are
\* the ones the feed without such items would give, whatever last_id is.
C13_NoIdNeverSubmitted ==
  /\ \A i \in 1..Len(new_items) : HasStatusId(new_items[i].link)
  /\ \A i \in 1..Len(attempts) : attempts[i].tid # 0
  /\ Len(attempts) <= Len(WithIds(items))
  /\ pc \in {"push", "advance"} =>
       new_items = SortByPubDate(NewItems(WithIds(items), last_id))
  /\ \A a \in Accounts : state[a].tag = "id" => state[a].id \in 1..MaxId

C13_Witness ==
  /\ pc = "advance"
  /\ last_id.kind = "num"
  /\ \E i \in 1..Len(items) : ~HasStatusId(items[i].link)
  /\ \E i \in 1..Len(attempts) : attempts[i].ok

\* C14 (missing credentials): without credentials every push of a pass ends
\* with ok = False and no request to the channel, no exception leaves the
\* push loop, and the state of the process stays the one it loaded.
C14_MissingCredentials ==
  ~cfg.creds =>
    /\ \A i \in 1..Len(attempts) : ~attempts[i].sent /\ ~attempts[i].ok
    /\ pc \in {"push", "advance"} => new_items = SortByPubDate(NewItems(items, last_id))
    /\ pc \in Running \ {"start"} => state = load_json(fs[Path])
    /\ halt.kind = "aborted" => halt.at # "push"

C14_Witness ==
  /\ ~cfg.creds
  /\ pc = "advance"
  /\ ui = 2
  /\ Len(attempts) = 2
  /\ state["z"] = NumRec(1)

\* C15 (failure isolation): no pass is ended by an exception raised while a
\* user is processed (in a mirror probe, in the filter, in a push).
C15_FailureIsolation ==
  halt.kind = "aborted" => halt.at \notin PerUser

\* C16 (checkpoint load never fails): the load of the checkpoint never ends
\* the process; with a checkpoint file that is not JSON, every user is taken
\* as never synced and every fetched item with an id is pushed.
C16_LoadNeverFails ==
  /\ halt.kind = "aborted" => halt.at # "start"
  /\ (fs[Path].kind # "json" /\ pc \in {"push", "advance"}) =>
       /\ last_id = PyNone
       /\ Tids(new_items) = Tids(items)

\* C17 (interrupt only between passes): in --daemon a process stopped by an
\* interrupt was stopped in the sleep between two passes (or on its way from
\* the sleep into run_once).
C17_InterruptBetweenPasses ==
  (halt.kind = "interrupted" /\ cfg.mode = "daemon") => halt.at \in {"sleep", "run"}

\* C18 (oldest-first delivery): the pushes made for one user in one pass (the
\* i-th push is the one of new_items[i]) are in ascending order of the time
\* the items' pubDate denotes.
C18_OldestFirst ==
  \A i, j \in 1..Len(attempts) :
    i < j => PubTime(new_items[i].pubDate) <= PubTime(new_items[j].pubDate)

\* C19 (watermark is the maximum): after the pushes of a user of which at
\* least one was accepted, the user's record holds the largest id among the
\* accepted pushes.
C19_WatermarkIsMax ==
  (pc = "user_done" /\ \E i \in 1..Len(attempts) : attempts[i].ok) =>
    state[username] =
      NumRec(MaxOf({ attempts[i].tid : i \in { j \in 1..Len(attempts) : attempts[j].ok } }))

\* C20 (account independence): a step of a pass leaves the record of every
\* user other than the one processed as it was; a user that is not tracked
\* keeps its record, in the process and in the checkpoint file; a user none of
\* whose pushes was accepted keeps its last_id.
C20_AccountIndependence ==
  [][/\ \A a \in Accounts :
          (pc \in PerUser /\ pc' \in Running /\ a # username) => state'[a] = state[a]
     /\ \A a \in Accounts \ Tracked :
          /\ (pc \in Running \ {"start"} /\ pc' \in Running) => state'[a] = state[a]
          /\ load_json(fs'[Path])[a] = load_json(fs[Path])[a]
     /\ (pc = "advance" /\ pc' = "user_done" /\ \A i \in 1..Len(attempts) : ~attempts[i].ok) =>
          Watermark(state', username) = Watermark(state, username)]_vars

C20_Witness ==
  /\ pc = "user_done"
  /\ ui = 2
  /\ state["a"].tag = "id"
  /\ state["b"].tag = "id"
  /\ state["b"] # load_json(fs[Path])["b"]
  /\ state["z"] = NumRec(1)

====
